---- MODULE Spec2Model ----
(***************************************************************************)
(* A model of the Ajazz stream-deck driver (DeviceAjazz): the command      *)
(* framing and chunked report transport, the retry wrappers, the key       *)
(* index mapping, the sleep/wake/brightness state machine, the idle timer  *)
(* goroutine and the key reader goroutine.                                 *)
(*                                                                         *)
(* Every Go function is one action.  A goroutine is a thread with a call   *)
(* stack of frames; a frame holds the function's name, its position (pc)   *)
(* and its locals.  One step of an action is one statement (one access to  *)
(* shared memory, one lock operation, one call or one return), so that     *)
(* the interleavings of the goroutines are those of the program.           *)
(***************************************************************************)
EXTENDS Integers, Sequences, FiniteSets, TLC

(***************************************************************************)
(* Bounds of the model.                                                    *)
(***************************************************************************)
\* the largest sleep timeout a caller configures, in time units
MaxTimeout == 3
\* the largest fade duration a caller configures, in fade ticks
MaxFadeTicks == 2
\* how many idle-timer goroutines may be started
MaxTimers == 1
\* how many key reports the HID read primitive delivers
MaxReports == 2
\* how many API calls the caller makes after Open
MaxCalls == 3

(***************************************************************************)
(* Program constants.                                                      *)
(***************************************************************************)
\* the report capacity: make([]byte, 512)
ReportSize == 512
\* the report capacity with a leading report-ID byte: make([]byte, 513)
ReportSizeID == 513
\* retry.Attempts(3) of WriteRetry, and the attempt count the callers pass
Attempts == 3
\* the idle timer's period time.After(time.Second), in time units of 500 ms
TickInterval == 2

\* a uint8
Byte == 0..255
\* the result of a slice index out of range (a run-time panic)
Panic == -1

(***************************************************************************)
(* Byte slices.  A Go slice is a sequence; Go's index i is i + 1 here.     *)
(***************************************************************************)
Zeros(n) == [i \in 1..n |-> 0]

\* copy(dst[off:], src): min(len(dst) - off, len(src)) bytes are copied
CopyAt(dst, off, src) ==
    [i \in 1..Len(dst) |->
        IF i > off /\ i - off <= Len(src) THEN src[i - off] ELSE dst[i]]

\* s[i] of a Go slice, with its bounds check
Index(s, i) == IF i + 1 \in DOMAIN s THEN s[i + 1] ELSE Panic

\* data[lo:hi]
Slice(data, lo, hi) == SubSeq(data, lo + 1, hi)

\* binary.BigEndian.PutUint32(buf[off:], v)
PutUint32(buf, off, v) ==
    CopyAt(buf, off, << (v \div 16777216) % 256, (v \div 65536) % 256,
                        (v \div 256) % 256, v % 256 >>)

\* binary.BigEndian.Uint32(buf[off:])
Uint32At(buf, off) ==
    buf[off + 1] * 16777216 + buf[off + 2] * 65536 + buf[off + 3] * 256 + buf[off + 4]

Min(a, b) == IF a < b THEN a ELSE b

(***************************************************************************)
(* The key index mapper.                                                   *)
(***************************************************************************)
ElgatoTable == <<12, 9, 6, 3, 0, 15, 13, 10, 7, 4, 1, 16, 14, 11, 8, 5, 2, 17>>
AjazzTable == <<4, 10, 16, 3, 9, 15, 2, 8, 14, 1, 7, 13, 0, 6, 12, 5, 11, 17>>

\* elgato_to_ajazz(index, columns): a logical index to a physical slot
elgato_to_ajazz(index) ==
    IF index > 17 THEN index
    ELSE LET e == Index(ElgatoTable, index)
         IN  IF e = Panic THEN Panic ELSE (e + 1) % 256

\* ajazz_to_elgato(index, columns): index - 1 is computed in uint8
ajazz_to_elgato(index) ==
    IF index > 18 THEN index
    ELSE Index(AjazzTable, (index + 255) % 256)

(***************************************************************************)
(* The state.                                                              *)
(***************************************************************************)
VARIABLES
    d,          \* the DeviceAjazz struct: device, brightness, preSleepBrightness,
                \* asleep, fadeDuration, lastActionTime, sleepCancel
    sleepMutex, \* *d.sleepMutex: the writer and the readers that hold it
    mutex,      \* *d.mutex: the goroutine that holds it
    cmd,        \* the backing array of d.cmd, the shared transmit buffer
    hid,        \* the HID transport and the panel behind it
    kch,        \* the event channel of ReadKeys and what its consumer received
    timers,     \* the idle-timer goroutines' contexts and pending time.After
    stack,      \* the call stack of every goroutine
    ret,        \* the error the last call of a goroutine returned
    caller,     \* the API calls the caller made and how they ended
    probe       \* the input and the results of the key index mapper under test

vars == <<d, sleepMutex, mutex, cmd, hid, kch, timers, stack, ret, caller, probe>>

UserT == <<"user", 0>>
ReaderT == <<"reader", 0>>
TimerT(i) == <<"timer", i>>
NoThread == <<"none", 0>>
TimerIds == 1..MaxTimers
Threads == {UserT, ReaderT} \cup {TimerT(i) : i \in TimerIds}

\* error values: nil, or the errors an error wraps, oldest first (retry.Error
\* keeps every attempt's error, and its Unwrap is the last one)
Nil == <<>>
ErrIO == <<"io">>
LastError(err) == err[Len(err)]

(***************************************************************************)
(* Call stacks.                                                            *)
(***************************************************************************)
Top(t) == stack[t][Len(stack[t])]
Running(t, fn) == stack[t] # <<>> /\ Top(t).fn = fn
SetTop(t, fr) == [stack EXCEPT ![t] = [@ EXCEPT ![Len(@)] = fr]]
Goto(t, pc) == SetTop(t, [Top(t) EXCEPT !.pc = pc])
\* a call: the caller continues at pc when the callee has returned
Push(t, pc, fr) ==
    [stack EXCEPT ![t] = Append([@ EXCEPT ![Len(@)] = [Top(t) EXCEPT !.pc = pc]], fr)]
Pop(t) == [stack EXCEPT ![t] = SubSeq(@, 1, Len(@) - 1)]

\* everything but the call stacks and the caller's record
world == <<d, sleepMutex, mutex, cmd, hid, kch, timers, probe>>

\* what the caller sees of the device at the start and the end of an API call
Snapshot == [brightness |-> d.brightness, hw |-> hid.hw, asleep |-> d.asleep,
             pre |-> d.preSleepBrightness, writes |-> Len(hid.wire),
             checks |-> caller.checks]

\* return err: the frame is popped; the end of an API call of the caller is recorded
Return(t, err) ==
    /\ stack' = Pop(t)
    /\ ret' = [ret EXCEPT ![t] = err]
    /\ caller' = IF t = UserT /\ Len(stack[t]) = 1 /\ caller.record
                 THEN [caller EXCEPT !.hist = Append(@,
                          [op |-> Top(t).fn, call |-> caller.call, err |-> err,
                           before |-> caller.before, after |-> Snapshot]),
                          !.opened = IF Top(t).fn = "Open" THEN err = Nil ELSE @]
                 ELSE caller

\* a step inside a function, and a call of another function
Jump(t, pc) == stack' = Goto(t, pc) /\ UNCHANGED <<ret, caller>>
Call(t, pc, fr) == stack' = Push(t, pc, fr) /\ UNCHANGED <<ret, caller>>

\* the start of an API call of the caller
Enter(fr) ==
    /\ stack[UserT] = <<>>
    /\ stack' = [stack EXCEPT ![UserT] = <<fr>>]
    /\ caller' = [caller EXCEPT !.calls = @ + 1, !.call = fr,
                                !.before = IF caller.record THEN Snapshot ELSE @,
                                !.hist = IF Len(@) < 2 THEN @ ELSE Tail(@)]
    /\ ret' = [ret EXCEPT ![UserT] = Nil]

(***************************************************************************)
(* The HID transport and the panel.                                        *)
(***************************************************************************)
\* a []byte argument: the shared transmit buffer d.cmd itself, or bytes of the caller
Shared == [alias |-> TRUE, bytes |-> <<>>]
Bytes(b) == [alias |-> FALSE, bytes |-> b]
Deref(x) == IF x.alias THEN cmd ELSE x.bytes

\* a cmdWrite that prepends the report ID whatever data[0] is
ReportWithID(data, goos) ==
    IF goos # "windows"
    THEN CopyAt(Zeros(ReportSizeID), 1, data)
    ELSE CopyAt(Zeros(ReportSize), 0, data)

\* cmdWrite: the report handed to device.Write for data
Report(data, goos) ==
    IF goos # "windows" /\ data[1] = 0
    THEN LET ptr == CopyAt(Zeros(ReportSizeID), 1, data)
         IN  IF Len(data) + 1 < ReportSizeID
             THEN CopyAt(ptr, Len(data) + 1, Zeros(ReportSizeID - 1 - Len(data)))
             ELSE ptr
    ELSE LET ptr == CopyAt(Zeros(ReportSize), 0, data)
         IN  IF Len(data) < ReportSize
             THEN CopyAt(ptr, Len(data), Zeros(ReportSize - Len(data)))
             ELSE ptr

LightHeader == <<\H43, \H52, \H54, \H00, \H00, \H4c, \H49, \H47, \H00, \H00>>
StopHeader == <<\H43, \H52, \H54, \H00, \H00, \H53, \H54, \H50>>
ClearHeader == <<\H43, \H52, \H54, \H00, \H00, \H43, \H4c, \H45,
                 \H00, \H00, \H00, \Hff, \H00, \H00, \H00, \H00>>
ExitHeader == <<\H43, \H52, \H54, \H00, \H00, \H43, \H4c, \H45,
                \H00, \H00, \H44, \H43, \H00, \H00, \H00, \H00>>
BatchHeader == <<\H43, \H52, \H54, \H00, \H00, \H42, \H41, \H54,
                 \H00, \H00, \H0c, \H48, \H0d, \H00, \H00, \H00>>
LogoHeader == <<\H43, \H52, \H54, \H00, \H00, \H4c, \H4f, \H47,
                \H00, \H12, \Hc3, \Hc0, \H01, \H00, \H00, \H00>>

\* what the panel receives of a report: a leading report-ID byte is not part of it
Payload(ptr) == IF Len(ptr) = ReportSizeID THEN Tail(ptr) ELSE ptr
IsCommand(ptr, header) == SubSeq(Payload(ptr), 1, 8) = SubSeq(header, 1, 8)

\* the outcomes device.Write can have
WriteOutcomes == IF d.device # "open" THEN {FALSE}
                 ELSE IF hid.failures > 0 THEN {TRUE, FALSE} ELSE {TRUE}

\* device.Write(ptr) by goroutine t: the panel takes the brightness of a LIG command
Written(t, ptr, ok) ==
    [hid EXCEPT !.failures = IF ok \/ d.device # "open" THEN @ ELSE @ - 1,
                !.hw = IF ok /\ IsCommand(ptr, LightHeader) THEN Payload(ptr)[11] ELSE @,
                !.wire = IF hid.trace
                         THEN Append(@, [by |-> t, ptr |-> ptr, ok |-> ok])
                         ELSE @]

cmdWrite(t) ==
    /\ Running(t, "cmdWrite")
    /\ \E ok \in WriteOutcomes :
          /\ hid' = Written(t, Report(Deref(Top(t).data), hid.goos), ok)
          /\ Return(t, IF ok THEN Nil ELSE ErrIO)
    /\ UNCHANGED <<d, sleepMutex, mutex, cmd, kch, timers, probe>>

(***************************************************************************)
(* retry.Do(f, retry.Attempts(attempts), retry.OnRetry(hook)): f is called *)
(* until it returns nil or attempts calls have failed; the hook runs after *)
(* every failed call; the errors of all calls are returned.                *)
(***************************************************************************)
RetryFrame(fn, args) == [n |-> 0, fn |-> fn, pc |-> "do", args |-> args, errorLog |-> Nil]

retryDo(t, attempts, callee, hook) ==
    LET f == Top(t)
        errs == f.errorLog \o ret[t]
        last == f.n = attempts - 1
        again == [f EXCEPT !.n = @ + 1, !.pc = "do"]
    IN  CASE f.pc = "do" ->
                /\ Call(t, "done", callee)
                /\ UNCHANGED world
          [] f.pc = "done" /\ ret[t] = Nil ->
                /\ Return(t, Nil)
                /\ UNCHANGED world
          [] f.pc = "done" /\ ret[t] # Nil /\ hook # <<>> ->
                \* errorLog = append(errorLog, err); config.onRetry(n, err)
                /\ stack' = [stack EXCEPT ![t] =
                       Append([@ EXCEPT ![Len(@)] =
                                  [f EXCEPT !.errorLog = errs, !.pc = "retried"]],
                              hook[1])]
                /\ UNCHANGED <<ret, caller>>
                /\ UNCHANGED world
          [] f.pc = "done" /\ ret[t] # Nil /\ hook = <<>> ->
                \* errorLog = append(errorLog, err); the last attempt breaks the loop
                /\ IF last
                   THEN Return(t, errs)
                   ELSE /\ stack' = SetTop(t, [again EXCEPT !.errorLog = errs])
                        /\ UNCHANGED <<ret, caller>>
                /\ UNCHANGED world
          [] f.pc = "retried" ->
                /\ IF last
                   THEN Return(t, f.errorLog)
                   ELSE /\ stack' = SetTop(t, again)
                        /\ UNCHANGED <<ret, caller>>
                /\ UNCHANGED world

\* WriteRetry(data): retry.Do(cmdWrite(data), retry.Attempts(3))
WriteRetry(t) ==
    /\ Running(t, "WriteRetry")
    /\ retryDo(t, Attempts, [fn |-> "cmdWrite", pc |-> "write", data |-> Top(t).args.data], <<>>)

(***************************************************************************)
(* The command set.                                                        *)
(***************************************************************************)
\* a lock that is granted whoever holds it
MutexGrab(t) == mutex' = t

\* d.mutex.Lock()
MutexLock(t) == mutex = NoThread /\ mutex' = t

\* copy(d.cmd, d.zero); copy(d.cmd, header)
Framed(header) == CopyAt(CopyAt(cmd, 0, Zeros(ReportSize)), 0, header)

\* cmdLight: d.cmd[10] = brightness
\* SetLight with the level one byte early
LightFrameEarly(brightness) == [Framed(LightHeader) EXCEPT ![10] = brightness]
LightFrame(brightness) == [Framed(LightHeader) EXCEPT ![11] = brightness]
StopFrame == Framed(StopHeader)
ExitFrame == Framed(ExitHeader)
\* cmdClear: the target is mapped unless it is 0xff; d.cmd[11] = target
ClearTarget(target) == IF target # \Hff THEN elgato_to_ajazz(target) ELSE target
ClearFrame(target) == [Framed(ClearHeader) EXCEPT ![12] = ClearTarget(target)]
\* cmdBatchRetry: d.cmd[12] = target; PutUint32(d.cmd[8:], size)
\* The reading in which the mapper is entered one past the logical index.
BatchTargetNext(index) == elgato_to_ajazz((index + 1) % 256)

BatchTarget(index) == elgato_to_ajazz(index)
BatchFrame(index, size) ==
    PutUint32([Framed(BatchHeader) EXCEPT ![13] = BatchTarget(index)], 8, size)
LogoFrame == Framed(LogoHeader)

\* a command of one frame: lock, build the frame in d.cmd, WriteRetry(d.cmd), unlock
command(t, frame) ==
    LET f == Top(t)
    IN  CASE f.pc = "lock" ->
                /\ MutexLock(t)
                /\ Jump(t, "build")
                /\ UNCHANGED <<d, sleepMutex, cmd, hid, kch, timers, probe>>
          [] f.pc = "build" ->
                /\ cmd' = frame
                /\ Jump(t, "write")
                /\ UNCHANGED <<d, sleepMutex, mutex, hid, kch, timers, probe>>
          [] f.pc = "write" ->
                /\ Call(t, "unlock", RetryFrame("WriteRetry", [data |-> Shared]))
                /\ UNCHANGED world
          [] f.pc = "unlock" ->
                /\ mutex' = NoThread
                /\ Return(t, ret[t])
                /\ UNCHANGED <<d, sleepMutex, cmd, hid, kch, timers, probe>>

cmdLight(t) == Running(t, "cmdLight") /\ command(t, LightFrame(Top(t).args.brightness))
cmdStop(t) == Running(t, "cmdStop") /\ command(t, StopFrame)
cmdExit(t) == Running(t, "cmdExit") /\ command(t, ExitFrame)
cmdClear(t) == Running(t, "cmdClear") /\ command(t, ClearFrame(Top(t).args.target))

CmdFrame(fn, args) == [fn |-> fn, pc |-> "lock", args |-> args]

cmdLightRetry(t) ==
    /\ Running(t, "cmdLightRetry")
    /\ retryDo(t, Top(t).args.retryAttempts,
               CmdFrame("cmdLight", [brightness |-> Top(t).args.brightness]), <<>>)

cmdStopRetry(t) ==
    /\ Running(t, "cmdStopRetry")
    /\ retryDo(t, Top(t).args.retryAttempts, CmdFrame("cmdStop", <<>>), <<>>)

cmdClearRetry(t) ==
    /\ Running(t, "cmdClearRetry")
    /\ retryDo(t, Top(t).args.retryAttempts,
               CmdFrame("cmdClear", [target |-> Top(t).args.target]), <<>>)

\* the window of data the chunk loop hands to cmdWrite at offset i
Chunk(data, i) ==
    IF i + ReportSize < Len(data) THEN Slice(data, i, i + ReportSize)
    ELSE Slice(data, i, Len(data))

\* the chunk loop of an upload, with the mutex held: for i := 0; i < size; i += 512
chunks(t, data) ==
    LET f == Top(t)
    IN  CASE f.pc = "loop" ->
                /\ IF f.i < Len(data)
                   THEN stack' = Push(t, "next", [fn |-> "cmdWrite", pc |-> "write",
                                                  data |-> Bytes(Chunk(data, f.i))])
                   ELSE stack' = Goto(t, "unlock")
                /\ ret' = [ret EXCEPT ![t] = IF f.i < Len(data) THEN @ ELSE Nil]
                /\ UNCHANGED caller
                /\ UNCHANGED world
          [] f.pc = "next" ->
                /\ IF ret[t] # Nil
                   THEN stack' = Goto(t, "unlock")
                   ELSE stack' = SetTop(t, [f EXCEPT !.i = @ + ReportSize, !.pc = "loop"])
                /\ UNCHANGED <<ret, caller>>
                /\ UNCHANGED world
          [] f.pc = "unlock" ->
                /\ mutex' = NoThread
                /\ Return(t, ret[t])
                /\ UNCHANGED <<d, sleepMutex, cmd, hid, kch, timers, probe>>

UploadFrame(fn, args) == [fn |-> fn, pc |-> "lock", i |-> 0, args |-> args]

\* the function cmdBatchRetry retries: one attempt to upload a key image
cmdBatchRetry_func1(t) ==
    /\ Running(t, "cmdBatchRetry_func1")
    /\ LET f == Top(t)
       IN  CASE f.pc = "lock" ->
                   /\ MutexLock(t)
                   /\ Jump(t, "build")
                   /\ UNCHANGED <<d, sleepMutex, cmd, hid, kch, timers, probe>>
             [] f.pc = "build" ->
                   /\ cmd' = BatchFrame(f.args.index, Len(f.args.data))
                   /\ Jump(t, "header")
                   /\ UNCHANGED <<d, sleepMutex, mutex, hid, kch, timers, probe>>
             [] f.pc = "header" ->
                   /\ Call(t, "next0", [fn |-> "cmdWrite", pc |-> "write", data |-> Shared])
                   /\ UNCHANGED world
             [] f.pc = "next0" ->
                   /\ Jump(t, IF ret[t] # Nil THEN "unlock" ELSE "loop")
                   /\ UNCHANGED world
             [] OTHER -> chunks(t, f.args.data)

\* an OnRetry hook that clears every slot, not the slot of the upload
ClearEverySlot(index) == CmdFrame("cmdClear", [target |-> \Hff])

\* retry.OnRetry of cmdBatchRetry: d.cmdClear(index), its error dropped
cmdBatchRetry_func2(index) == CmdFrame("cmdClear", [target |-> index])

cmdBatchRetry(t) ==
    /\ Running(t, "cmdBatchRetry")
    /\ retryDo(t, Top(t).args.retryAttempts,
               UploadFrame("cmdBatchRetry_func1",
                           [index |-> Top(t).args.index, data |-> Top(t).args.data]),
               <<cmdBatchRetry_func2(Top(t).args.index)>>)

\* the fixed logo resolution
LogoSize == 854 * 480 * 3
ErrLength == <<"invalid data length">>

cmdLogo(t) ==
    /\ Running(t, "cmdLogo")
    /\ LET f == Top(t)
       IN  CASE f.pc = "lock" ->
                   /\ MutexLock(t)
                   /\ Jump(t, "check")
                   /\ UNCHANGED <<d, sleepMutex, cmd, hid, kch, timers, probe>>
             [] f.pc = "check" ->
                   /\ stack' = Goto(t, IF Len(f.args.data) # LogoSize THEN "unlock" ELSE "build")
                   /\ ret' = [ret EXCEPT ![t] =
                                 IF Len(f.args.data) # LogoSize THEN ErrLength ELSE @]
                   /\ caller' = [caller EXCEPT !.checks = @ + 1]
                   /\ UNCHANGED world
             [] f.pc = "build" ->
                   \* the header is built and never written
                   /\ cmd' = LogoFrame
                   /\ Jump(t, "loop")
                   /\ UNCHANGED <<d, sleepMutex, mutex, hid, kch, timers, probe>>
             [] OTHER -> chunks(t, f.args.data)

cmdLogoRetry(t) ==
    /\ Running(t, "cmdLogoRetry")
    /\ retryDo(t, Top(t).args.retryAttempts,
               UploadFrame("cmdLogo", [data |-> Top(t).args.data]), <<>>)

\* FirmwareVersion: a feature report is read with the mutex held
FirmwareVersion(t) ==
    /\ Running(t, "FirmwareVersion")
    /\ LET f == Top(t)
           req == [Zeros(ReportSize) EXCEPT ![1] = 1]
       IN  CASE f.pc = "lock" ->
                   /\ MutexLock(t)
                   /\ Jump(t, "get")
                   /\ UNCHANGED <<d, sleepMutex, cmd, hid, kch, timers, probe>>
             [] f.pc = "get" ->
                   /\ \E ok \in WriteOutcomes :
                         /\ hid' = [hid EXCEPT
                               !.failures = IF ok \/ d.device # "open" THEN @ ELSE @ - 1,
                               !.wire = IF hid.trace
                                        THEN Append(@, [by |-> t, ptr |-> req, ok |-> ok])
                                        ELSE @]
                         /\ ret' = [ret EXCEPT ![t] = IF ok THEN Nil ELSE ErrIO]
                   /\ stack' = Goto(t, "unlock")
                   /\ UNCHANGED <<d, sleepMutex, mutex, cmd, kch, timers, probe, caller>>
             [] f.pc = "unlock" ->
                   /\ mutex' = NoThread
                   /\ Return(t, ret[t])
                   /\ UNCHANGED <<d, sleepMutex, cmd, hid, kch, timers, probe>>

\* the edge length of a key image, d.Pixels
Pixels == 72
ErrDimensions == <<"supplied image has wrong dimensions">>
ErrSend == <<"cannot send image data">>

\* SetImage(index, img); img is its size and what toImageFormat(flipImage(img)) gives
SetImage(t) ==
    /\ Running(t, "SetImage")
    /\ LET f == Top(t)
           img == f.args.img
       IN  CASE f.pc = "check" ->
                   /\ caller' = [caller EXCEPT !.checks = @ + 1]
                   /\ stack' = Goto(t, IF img.dy # Pixels \/ img.dx # Pixels
                                       THEN "ret" ELSE "send")
                   /\ ret' = [ret EXCEPT ![t] =
                                 IF img.dy # Pixels \/ img.dx # Pixels
                                 THEN ErrDimensions ELSE Nil]
                   /\ UNCHANGED world
             [] f.pc = "send" ->
                   /\ Call(t, "sent", RetryFrame("cmdBatchRetry",
                              [index |-> f.args.index, data |-> img.bytes,
                               retryAttempts |-> Attempts]))
                   /\ UNCHANGED world
             [] f.pc = "sent" ->
                   /\ stack' = Goto(t, "ret")
                   /\ ret' = [ret EXCEPT ![t] = IF @ # Nil THEN ErrSend \o @ ELSE Nil]
                   /\ UNCHANGED caller
                   /\ UNCHANGED world
             [] f.pc = "ret" ->
                   /\ Return(t, ret[t])
                   /\ UNCHANGED world

\* the black image Clear draws: d.Pixels wide and high, and its encoding
BlackImage == [bytes |-> <<1>>, dy |-> Pixels, dx |-> Pixels]

\* Clear, on its copy of the struct: for i := uint8(0); i <= d.Columns*d.Rows; i++
Clear(t) ==
    /\ Running(t, "Clear")
    /\ LET f == Top(t)
       IN  CASE f.pc = "loop" ->
                   /\ IF f.i <= (f.args.Columns * f.args.Rows) % 256
                      THEN Call(t, "sent", [fn |-> "SetImage", pc |-> "check",
                                            args |-> [index |-> f.i, img |-> BlackImage]])
                      ELSE /\ stack' = Goto(t, "ret")
                           /\ ret' = [ret EXCEPT ![t] = Nil]
                           /\ UNCHANGED caller
                   /\ UNCHANGED world
             [] f.pc = "sent" ->
                   /\ IF ret[t] # Nil
                      THEN Jump(t, "ret")
                      ELSE /\ stack' = SetTop(t, [f EXCEPT !.i = (@ + 1) % 256, !.pc = "loop"])
                           /\ UNCHANGED <<ret, caller>>
                   /\ UNCHANGED world
             [] f.pc = "ret" ->
                   /\ Return(t, ret[t])
                   /\ UNCHANGED world

(***************************************************************************)
(* Open and Reset.                                                         *)
(***************************************************************************)
\* Stop, SetLight(100) and ClearSlot(0xff), each retried, each after the last succeeded
bringUp(t) ==
    LET f == Top(t)
    IN  CASE f.pc = "stop" ->
                /\ IF ret[t] # Nil
                   THEN Jump(t, "ret")
                   ELSE Call(t, "light", RetryFrame("cmdStopRetry", [retryAttempts |-> Attempts]))
                /\ UNCHANGED world
          [] f.pc = "light" ->
                /\ IF ret[t] # Nil
                   THEN Jump(t, "ret")
                   ELSE Call(t, "clear", RetryFrame("cmdLightRetry",
                                [brightness |-> 100, retryAttempts |-> Attempts]))
                /\ UNCHANGED world
          [] f.pc = "clear" ->
                /\ IF ret[t] # Nil
                   THEN Jump(t, "ret")
                   ELSE Call(t, "ret", RetryFrame("cmdClearRetry",
                                [target |-> \Hff, retryAttempts |-> Attempts]))
                /\ UNCHANGED world
          [] f.pc = "ret" ->
                /\ Return(t, ret[t])
                /\ UNCHANGED world

Open(t) ==
    /\ Running(t, "Open")
    /\ LET f == Top(t)
       IN  CASE f.pc = "init" ->
                   \* d.lastActionTime = time.Now(); the locks and the buffers are made;
                   \* d.device, err = d.info.Open()
                   /\ d' = [d EXCEPT !.sinceLastAction = 0, !.device = "open"]
                   /\ sleepMutex' = [w |-> NoThread, r |-> {}]
                   /\ mutex' = NoThread
                   /\ cmd' = Zeros(ReportSize)
                   /\ Jump(t, "version")
                   /\ UNCHANGED <<hid, kch, timers, probe>>
             [] f.pc = "version" ->
                   /\ Call(t, "stop", [fn |-> "FirmwareVersion", pc |-> "lock"])
                   /\ UNCHANGED world
             [] OTHER -> bringUp(t)

Reset(t) ==
    /\ Running(t, "Reset")
    /\ bringUp(t)

(***************************************************************************)
(* The sleep/wake/brightness state machine.                                *)
(***************************************************************************)
\* d.sleepMutex.Lock(), Unlock(), RLock(), RUnlock()
SleepLock(t) ==
    /\ sleepMutex.w = NoThread /\ sleepMutex.r = {}
    /\ sleepMutex' = [sleepMutex EXCEPT !.w = t]
SleepUnlock(t) == sleepMutex' = [sleepMutex EXCEPT !.w = NoThread]
SleepRLock(t) ==
    /\ sleepMutex.w = NoThread
    /\ sleepMutex' = [sleepMutex EXCEPT !.r = @ \cup {t}]
SleepRUnlock(t) == sleepMutex' = [sleepMutex EXCEPT !.r = @ \ {t}]

\* SetBrightness without its clamp
Unclamped(percent) == percent

\* if percent > 100 { percent = 100 }
Clamp(percent) == IF percent > 100 THEN 100 ELSE percent

\* the deferral test of SetBrightness
Deferred(asleep, percent) == asleep /\ percent > 0

SetBrightness(t) ==
    /\ Running(t, "SetBrightness")
    /\ LET f == Top(t)
           percent == Clamp(f.args.percent)
       IN  CASE f.pc = "store" ->
                   /\ d' = [d EXCEPT !.brightness = percent]
                   /\ Jump(t, "check")
                   /\ UNCHANGED <<sleepMutex, mutex, cmd, hid, kch, timers, probe>>
             [] f.pc = "check" ->
                   /\ Jump(t, IF Deferred(d.asleep, percent) THEN "lock" ELSE "light")
                   /\ UNCHANGED world
             [] f.pc = "lock" ->
                   /\ SleepLock(t)
                   /\ Jump(t, "remember")
                   /\ UNCHANGED <<d, mutex, cmd, hid, kch, timers, probe>>
             [] f.pc = "remember" ->
                   /\ d' = [d EXCEPT !.preSleepBrightness = percent]
                   /\ Jump(t, "unlock")
                   /\ UNCHANGED <<sleepMutex, mutex, cmd, hid, kch, timers, probe>>
             [] f.pc = "unlock" ->
                   /\ SleepUnlock(t)
                   /\ stack' = Goto(t, "ret")
                   /\ ret' = [ret EXCEPT ![t] = Nil]
                   /\ UNCHANGED <<d, mutex, cmd, hid, kch, timers, probe, caller>>
             [] f.pc = "light" ->
                   /\ Call(t, "ret", RetryFrame("cmdLightRetry",
                              [brightness |-> d.brightness, retryAttempts |-> Attempts]))
                   /\ UNCHANGED world
             [] f.pc = "ret" ->
                   /\ Return(t, ret[t])
                   /\ UNCHANGED world

\* int8(x) of an integer x
Int8(x) == IF x % 256 > 127 THEN (x % 256) - 256 ELSE x % 256

\* n / m truncated toward zero, as the conversion of a float to an integer truncates
Abs(n) == IF n < 0 THEN -n ELSE n
Quot(n, m) == IF (n < 0) = (m < 0) THEN Abs(n) \div Abs(m) ELSE -(Abs(n) \div Abs(m))

\* current after k steps of step = (end - start) / ticks, truncated as int8(current)
\* and uint8(current) truncate it; ticks = duration / fadeDelay is negative for a
\* negative duration, and int8 and uint8 keep the low byte of the truncated value
FadeCurrent(start, end, ticks, k) == Quot(start * ticks + k * (end - start), ticks)

\* the loop condition of Fade
FadeGoesOn(start, end, current) ==
    \/ start < end /\ Int8(current) < Int8(end)
    \/ start > end /\ Int8(current) > Int8(end)

\* Fade(start, end, duration); duration counts fade delays: ticks = duration / fadeDelay
Fade(t) ==
    /\ Running(t, "Fade")
    /\ LET f == Top(t)
           a == f.args
           current == IF a.duration = 0 THEN a.start
                      ELSE FadeCurrent(a.start, a.end, a.duration, f.k)
       IN  CASE f.pc = "step" ->
                   \* step is +Inf or -Inf when duration / fadeDelay is 0 and end differs
                   \* from start: return nil (0/0 is NaN, which is neither)
                   /\ stack' = Goto(t, IF a.duration = 0 /\ a.start # a.end
                                       THEN "ret" ELSE "loop")
                   /\ ret' = [ret EXCEPT ![t] = Nil]
                   /\ UNCHANGED caller
                   /\ UNCHANGED world
             [] f.pc = "loop" ->
                   /\ IF FadeGoesOn(a.start, a.end, current)
                      THEN stack' = Push(t, "slept", [fn |-> "SetBrightness", pc |-> "store",
                                                      args |-> [percent |-> current % 256]])
                      ELSE stack' = Goto(t, "ret")
                   /\ ret' = [ret EXCEPT ![t] = Nil]
                   /\ UNCHANGED caller
                   /\ UNCHANGED world
             [] f.pc = "slept" ->
                   \* time.Sleep(fadeDelay); current += step
                   /\ IF ret[t] # Nil
                      THEN stack' = Goto(t, "ret")
                      ELSE stack' = SetTop(t, [f EXCEPT !.k = @ + 1, !.pc = "loop"])
                   /\ UNCHANGED <<ret, caller>>
                   /\ UNCHANGED world
             [] f.pc = "ret" ->
                   /\ Return(t, ret[t])
                   /\ UNCHANGED world

FadeFrame(start, end, duration) ==
    [fn |-> "Fade", pc |-> "step", k |-> 0,
     args |-> [start |-> start, end |-> end, duration |-> duration]]

Sleep(t) ==
    /\ Running(t, "Sleep")
    /\ LET f == Top(t)
       IN  CASE f.pc = "lock" ->
                   /\ SleepLock(t)
                   /\ Jump(t, "save")
                   /\ UNCHANGED <<d, mutex, cmd, hid, kch, timers, probe>>
             [] f.pc = "save" ->
                   /\ d' = [d EXCEPT !.preSleepBrightness = d.brightness]
                   /\ Jump(t, "fade")
                   /\ UNCHANGED <<sleepMutex, mutex, cmd, hid, kch, timers, probe>>
             [] f.pc = "fade" ->
                   /\ Call(t, "faded", FadeFrame(d.brightness, 0, d.fadeDuration))
                   /\ UNCHANGED world
             [] f.pc = "faded" ->
                   /\ Jump(t, IF ret[t] # Nil THEN "unlock" ELSE "asleep")
                   /\ UNCHANGED world
             [] f.pc = "asleep" ->
                   /\ d' = [d EXCEPT !.asleep = TRUE]
                   /\ Jump(t, "dark")
                   /\ UNCHANGED <<sleepMutex, mutex, cmd, hid, kch, timers, probe>>
             [] f.pc = "dark" ->
                   /\ Call(t, "unlock", [fn |-> "SetBrightness", pc |-> "store",
                                         args |-> [percent |-> 0]])
                   /\ UNCHANGED world
             [] f.pc = "unlock" ->
                   /\ SleepUnlock(t)
                   /\ Jump(t, "ret")
                   /\ UNCHANGED <<d, mutex, cmd, hid, kch, timers, probe>>
             [] f.pc = "ret" ->
                   /\ Return(t, ret[t])
                   /\ UNCHANGED world

Wake(t) ==
    /\ Running(t, "Wake")
    /\ LET f == Top(t)
       IN  CASE f.pc = "lock" ->
                   /\ SleepLock(t)
                   /\ Jump(t, "awake")
                   /\ UNCHANGED <<d, mutex, cmd, hid, kch, timers, probe>>
             [] f.pc = "awake" ->
                   /\ d' = [d EXCEPT !.asleep = FALSE]
                   /\ Jump(t, "fade")
                   /\ UNCHANGED <<sleepMutex, mutex, cmd, hid, kch, timers, probe>>
             [] f.pc = "fade" ->
                   /\ Call(t, "faded", FadeFrame(0, d.preSleepBrightness, d.fadeDuration))
                   /\ UNCHANGED world
             [] f.pc = "faded" ->
                   /\ Jump(t, IF ret[t] # Nil THEN "unlock" ELSE "stamp")
                   /\ UNCHANGED world
             [] f.pc = "stamp" ->
                   /\ d' = [d EXCEPT !.sinceLastAction = 0]
                   /\ Jump(t, "restore")
                   /\ UNCHANGED <<sleepMutex, mutex, cmd, hid, kch, timers, probe>>
             [] f.pc = "restore" ->
                   /\ Call(t, "unlock", [fn |-> "SetBrightness", pc |-> "store",
                                         args |-> [percent |-> d.preSleepBrightness]])
                   /\ UNCHANGED world
             [] f.pc = "unlock" ->
                   /\ SleepUnlock(t)
                   /\ Jump(t, "ret")
                   /\ UNCHANGED <<d, mutex, cmd, hid, kch, timers, probe>>
             [] f.pc = "ret" ->
                   /\ Return(t, ret[t])
                   /\ UNCHANGED world

SetSleepFadeDuration(t) ==
    /\ Running(t, "SetSleepFadeDuration")
    /\ LET f == Top(t)
       IN  CASE f.pc = "set" ->
                   /\ d' = [d EXCEPT !.fadeDuration = f.args.t]
                   /\ stack' = Goto(t, "ret")
                   /\ ret' = [ret EXCEPT ![t] = Nil]
                   /\ UNCHANGED <<sleepMutex, mutex, cmd, hid, kch, timers, probe, caller>>
             [] f.pc = "ret" ->
                   /\ Return(t, ret[t])
                   /\ UNCHANGED world

(***************************************************************************)
(* The idle timer.  Time is counted in units of half a timer period;       *)
(* d.sinceLastAction is time.Since(d.lastActionTime), which the code       *)
(* compares with timeouts of at most MaxTimeout, so it is kept up to       *)
(* MaxAge and no further.                                                  *)
(***************************************************************************)
MaxAge == MaxTimeout + TickInterval + 1

\* the timer goroutines not yet started
FreeTimers == {i \in TimerIds : ~timers[i].started}

\* cancelSleepTimer: d.sleepCancel(), d.sleepCancel = nil, unless it is nil
cancelSleepTimer ==
    [ts |-> IF d.sleepCancel = 0 THEN timers
            ELSE [timers EXCEPT ![d.sleepCancel].done = TRUE],
     dv |-> [d EXCEPT !.sleepCancel = 0]]

\* an idle timer that lets a timer period more than the timeout pass
SleepLate(asleep, since, timeout) == ~asleep /\ since > timeout + TickInterval

\* the test of the idle timer: !d.asleep && since >= t
SleepDue(asleep, since, timeout) == ~asleep /\ since >= timeout

SetSleepTimeout(t) ==
    /\ Running(t, "SetSleepTimeout")
    /\ LET f == Top(t)
       IN  CASE f.pc = "cancel" ->
                   /\ timers' = cancelSleepTimer.ts
                   /\ d' = cancelSleepTimer.dv
                   /\ stack' = Goto(t, IF f.args.t = 0 THEN "ret" ELSE "start")
                   /\ ret' = [ret EXCEPT ![t] = Nil]
                   /\ UNCHANGED <<sleepMutex, mutex, cmd, hid, kch, probe, caller>>
             [] f.pc = "start" ->
                   \* ctx, d.sleepCancel = context.WithCancel(...); go func() {...}()
                   /\ \E i \in FreeTimers :
                         /\ i = CHOOSE j \in FreeTimers : \A k \in FreeTimers : j <= k
                         /\ d' = [d EXCEPT !.sleepCancel = i]
                         /\ timers' = [timers EXCEPT ![i] =
                               [started |-> TRUE, done |-> FALSE, left |-> TickInterval]]
                         /\ stack' = [Goto(t, "ret") EXCEPT ![TimerT(i)] =
                               <<[fn |-> "SetSleepTimeout_func1", pc |-> "select",
                                  t |-> f.args.t, since |-> 0, first |-> TRUE]>>]
                   /\ UNCHANGED <<sleepMutex, mutex, cmd, hid, kch, probe, ret, caller>>
             [] f.pc = "ret" ->
                   /\ Return(t, ret[t])
                   /\ UNCHANGED world

\* the goroutine SetSleepTimeout starts
SetSleepTimeout_func1(t) ==
    /\ Running(t, "SetSleepTimeout_func1")
    /\ LET f == Top(t)
           i == t[2]
       IN  CASE f.pc = "select" ->
                   \* select: time.After(time.Second) has fired, or ctx.Done() is closed
                   /\ \E way \in {"tick", "done"} :
                         /\ way = "tick" => timers[i].left = 0
                         /\ way = "done" => timers[i].done
                         /\ stack' = IF way = "tick" THEN Goto(t, "rlock")
                                     ELSE [stack EXCEPT ![t] = <<>>]
                   /\ UNCHANGED <<ret, caller>>
                   /\ UNCHANGED world
             [] f.pc = "rlock" ->
                   /\ SleepRLock(t)
                   /\ Jump(t, "since")
                   /\ UNCHANGED <<d, mutex, cmd, hid, kch, timers, probe>>
             [] f.pc = "since" ->
                   /\ stack' = SetTop(t, [f EXCEPT !.since = d.sinceLastAction, !.pc = "runlock"])
                   /\ UNCHANGED <<ret, caller>>
                   /\ UNCHANGED world
             [] f.pc = "runlock" ->
                   /\ SleepRUnlock(t)
                   /\ Jump(t, "test")
                   /\ UNCHANGED <<d, mutex, cmd, hid, kch, timers, probe>>
             [] f.pc = "test" ->
                   /\ IF SleepDue(d.asleep, f.since, f.t)
                      THEN Call(t, "again", [fn |-> "Sleep", pc |-> "lock"])
                      ELSE Jump(t, "again")
                   /\ UNCHANGED world
             [] f.pc = "again" ->
                   \* the next iteration makes a new time.After(time.Second)
                   /\ timers' = [timers EXCEPT ![i].left = TickInterval]
                   /\ stack' = SetTop(t, [f EXCEPT !.first = FALSE, !.pc = "select"])
                   /\ UNCHANGED <<d, sleepMutex, mutex, cmd, hid, kch, probe, ret, caller>>

\* Close: d.cancelSleepTimer(); d.cmdExit(), whose error is dropped; d.device.Close()
Close(t) ==
    /\ Running(t, "Close")
    /\ LET f == Top(t)
       IN  CASE f.pc = "cancel" ->
                   /\ timers' = cancelSleepTimer.ts
                   /\ d' = cancelSleepTimer.dv
                   /\ Jump(t, "exit")
                   /\ UNCHANGED <<sleepMutex, mutex, cmd, hid, kch, probe>>
             [] f.pc = "exit" ->
                   /\ Call(t, "close", [fn |-> "cmdExit", pc |-> "lock"])
                   /\ UNCHANGED world
             [] f.pc = "close" ->
                   /\ d' = [d EXCEPT !.device = "closed"]
                   /\ stack' = Goto(t, "ret")
                   /\ ret' = [ret EXCEPT ![t] = Nil]
                   /\ UNCHANGED <<sleepMutex, mutex, cmd, hid, kch, timers, probe, caller>>
             [] f.pc = "ret" ->
                   /\ Return(t, ret[t])
                   /\ UNCHANGED world

\* a goroutine waits: for d.mutex or d.sleepMutex, for time.After or ctx.Done, for
\* a report of the panel, or in time.Sleep(fadeDelay)
Waiting(t) ==
    LET f == Top(t)
    IN  \/ f.fn \in {"cmdLight", "cmdStop", "cmdClear", "cmdExit", "cmdLogo",
                     "cmdBatchRetry_func1", "FirmwareVersion"}
           /\ f.pc = "lock" /\ mutex # NoThread
        \/ f.fn \in {"Sleep", "Wake", "SetBrightness", "ReadKeys_func1"}
           /\ f.pc = "lock" /\ (sleepMutex.w # NoThread \/ sleepMutex.r # {})
        \/ f.fn = "SetSleepTimeout_func1" /\ f.pc = "rlock" /\ sleepMutex.w # NoThread
        \/ f.fn = "SetSleepTimeout_func1" /\ f.pc = "select"
           /\ timers[t[2]].left > 0 /\ ~timers[t[2]].done
        \/ f.fn = "ReadKeys_func1" /\ f.pc = "read"
        \/ f.fn = "Fade" /\ f.pc = "slept"

\* the time unit is half a timer period, and against it a goroutine takes no time to
\* compute: time passes when every goroutine waits
Busy(t) == stack[t] # <<>> /\ ~Waiting(t)

\* one time unit passes
Tick ==
    /\ \A t \in Threads : ~Busy(t)
    /\ d' = [d EXCEPT !.sinceLastAction = Min(@ + 1, MaxAge)]
    /\ timers' = [i \in TimerIds |->
                    IF Running(TimerT(i), "SetSleepTimeout_func1")
                       /\ Top(TimerT(i)).pc = "select" /\ timers[i].left > 0
                    THEN [timers[i] EXCEPT !.left = @ - 1] ELSE timers[i]]
    /\ UNCHANGED <<sleepMutex, mutex, cmd, hid, kch, stack, ret, caller, probe>>

(***************************************************************************)
(* The key reader.                                                         *)
(***************************************************************************)
\* d.translateKeyIndex, the mapper from physical to logical indices
translateKeyIndex(keyIndex) == ajazz_to_elgato(keyIndex)

\* a send that reports every event as a press
SentPressed(index, pressed) ==
    [kch EXCEPT !.events = Append(@, [index |-> index, pressed |-> TRUE,
                                      report |-> hid.read])]

\* kch <- Key{Index, Pressed}: the consumer takes the event; report is the number
\* of the key report it comes from
Sent(index, pressed) ==
    [kch EXCEPT !.events = Append(@, [index |-> index, pressed |-> pressed,
                                      report |-> hid.read])]

\* the panel, as the origin of a transfer: a key report read by d.device.Read
PanelT == <<"panel", 0>>
\* a read that returns no bytes, among the scan codes the panel sends
NoBytes == 256
\* the bytes d.device.Read puts into keyBuffer: the scan code is at offset 9
KeyReport(code) == IF code = NoBytes THEN <<>> ELSE [Zeros(ReportSize) EXCEPT ![10] = code]

\* ReadKeys: the channel is made and the reader goroutine started
ReadKeys(t) ==
    /\ Running(t, "ReadKeys")
    /\ LET f == Top(t)
       IN  CASE f.pc = "go" ->
                   /\ stack' = [Goto(t, "ret") EXCEPT ![ReaderT] =
                         <<[fn |-> "ReadKeys_func1", pc |-> "read", keyIndex |-> 0]>>]
                   /\ ret' = [ret EXCEPT ![t] = Nil]
                   /\ UNCHANGED caller
                   /\ UNCHANGED world
             [] f.pc = "ret" ->
                   /\ Return(t, ret[t])
                   /\ UNCHANGED world

\* the goroutine ReadKeys starts
ReadKeys_func1(t) ==
    /\ Running(t, "ReadKeys_func1")
    /\ LET f == Top(t)
       IN  CASE f.pc = "read" ->
                   \* d.device.Read(keyBuffer): a report, or an error that ends the loop
                   /\ \E got \in hid.codes, err \in BOOLEAN :
                         IF err
                         THEN /\ kch' = [kch EXCEPT !.closed = @ + 1]
                              /\ stack' = [stack EXCEPT ![t] = <<>>]
                              /\ hid' = hid
                         ELSE /\ hid.read < hid.reports
                              /\ hid' = [hid EXCEPT
                                    !.read = @ + 1,
                                    !.wire = IF hid.trace
                                             THEN Append(@, [by |-> PanelT, ptr |-> KeyReport(got),
                                                             ok |-> TRUE])
                                             ELSE @]
                              \* else if n <= 0 { continue }
                              /\ stack' = IF Len(KeyReport(got)) <= 0 THEN stack
                                          ELSE SetTop(t, [f EXCEPT !.keyIndex = KeyReport(got)[10],
                                                                   !.pc = "asleep"])
                              /\ kch' = kch
                   /\ UNCHANGED <<d, sleepMutex, mutex, cmd, timers, probe, ret, caller>>
             [] f.pc = "asleep" ->
                   \* if d.asleep { _ = d.Wake(); continue }
                   /\ IF d.asleep
                      THEN Call(t, "read", [fn |-> "Wake", pc |-> "lock"])
                      ELSE Jump(t, "lock")
                   /\ kch' = IF d.asleep THEN [kch EXCEPT !.woke = @ \cup {hid.read}] ELSE kch
                   /\ UNCHANGED <<d, sleepMutex, mutex, cmd, hid, timers, probe>>
             [] f.pc = "lock" ->
                   /\ SleepLock(t)
                   /\ Jump(t, "stamp")
                   /\ UNCHANGED <<d, mutex, cmd, hid, kch, timers, probe>>
             [] f.pc = "stamp" ->
                   /\ d' = [d EXCEPT !.sinceLastAction = 0]
                   /\ Jump(t, "unlock")
                   /\ UNCHANGED <<sleepMutex, mutex, cmd, hid, kch, timers, probe>>
             [] f.pc = "unlock" ->
                   /\ SleepUnlock(t)
                   /\ Jump(t, "press")
                   /\ UNCHANGED <<d, mutex, cmd, hid, kch, timers, probe>>
             [] f.pc = "press" ->
                   /\ kch' = Sent(translateKeyIndex(f.keyIndex), TRUE)
                   /\ Jump(t, "release")
                   /\ UNCHANGED <<d, sleepMutex, mutex, cmd, hid, timers, probe>>
             [] f.pc = "release" ->
                   \* the release is sent; keyBuffer[9] = 0
                   /\ kch' = Sent(translateKeyIndex(f.keyIndex), FALSE)
                   /\ stack' = SetTop(t, [f EXCEPT !.keyIndex = 0, !.pc = "read"])
                   /\ UNCHANGED <<d, sleepMutex, mutex, cmd, hid, timers, probe, ret, caller>>

(***************************************************************************)
(* The caller: the API calls a program makes on the device.                *)
(***************************************************************************)
Opened == d.device = "open" /\ caller.opened

CallOpen ==
    /\ d.device = "nil"
    /\ Enter([fn |-> "Open", pc |-> "init"])
    /\ UNCHANGED world

\* the levels a caller sets and the fade durations it configures
Levels == {0, 50, 100, 200}
FadeTicks == 0..MaxFadeTicks
Timeouts == 0..MaxTimeout

ApiCall(fr) ==
    /\ Opened
    /\ caller.calls < caller.limit
    /\ Enter(fr)
    /\ UNCHANGED world

CallSetBrightness ==
    \E p \in Levels :
        ApiCall([fn |-> "SetBrightness", pc |-> "store", args |-> [percent |-> p]])
CallSleep == ApiCall([fn |-> "Sleep", pc |-> "lock"])
CallWake == ApiCall([fn |-> "Wake", pc |-> "lock"])
CallReset == ApiCall([fn |-> "Reset", pc |-> "stop"])
CallSetSleepFadeDuration ==
    \E n \in FadeTicks :
        ApiCall([fn |-> "SetSleepFadeDuration", pc |-> "set", args |-> [t |-> n]])
CallSetSleepTimeout ==
    \E n \in Timeouts :
        /\ n > 0 => FreeTimers # {}
        /\ ApiCall([fn |-> "SetSleepTimeout", pc |-> "cancel", args |-> [t |-> n]])
CallReadKeys ==
    /\ stack[ReaderT] = <<>> /\ kch.closed = 0 /\ hid.read = 0
    /\ ApiCall([fn |-> "ReadKeys", pc |-> "go"])

\* the calls of the retry wrappers, with the attempt bound their callers pass
CallLightRetry ==
    \E b \in {0, 100} :
        ApiCall(RetryFrame("cmdLightRetry", [brightness |-> b, retryAttempts |-> Attempts]))
CallStopRetry == ApiCall(RetryFrame("cmdStopRetry", [retryAttempts |-> Attempts]))
CallClearRetry ==
    \E target \in {0, \Hff} :
        ApiCall(RetryFrame("cmdClearRetry", [target |-> target, retryAttempts |-> Attempts]))

\* the payload of n bytes of a pattern: "ramp" has no zero byte and differs from
\* place to place, "lead" is a ramp behind a leading zero, "zero" is all zero
Payload_(n, pattern) ==
    [i \in 1..n |->
        CASE pattern = "zero" -> 0
          [] pattern = "lead" /\ i = 1 -> 0
          [] OTHER -> ((i - 1) % 251) + 1]

\* how many reports the largest uploaded payload fills
MaxChunks == 3
PayloadSizes == {1, ReportSize - 1} \cup {k * ReportSize : k \in 1..(MaxChunks - 1)}
                  \cup {k * ReportSize + 1 : k \in 1..(MaxChunks - 1)}
Payloads == {Payload_(n, p) : n \in PayloadSizes, p \in {"ramp", "lead", "zero"}}
Indices == {0, 5, 17, 18, \Hff}

CallSetImage(indices, payloads, sizes) ==
    \E index \in indices, bytes \in payloads, dx \in sizes, dy \in sizes :
        ApiCall([fn |-> "SetImage", pc |-> "check",
                 args |-> [index |-> index, img |-> [bytes |-> bytes, dy |-> dy, dx |-> dx]]])

\* logo payloads of a wrong length
CallLogoRetry ==
    \E n \in {0, 1, ReportSize + 1} :
        ApiCall(RetryFrame("cmdLogoRetry",
                           [data |-> Payload_(n, "ramp"), retryAttempts |-> Attempts]))

(***************************************************************************)
(* Initial states.                                                         *)
(***************************************************************************)
\* how many writes the transport may fail
MaxFail == 9

NoSnapshot == [brightness |-> 0, hw |-> 0, asleep |-> FALSE, pre |-> 0,
               writes |-> 0, checks |-> 0]

\* the struct as the device table makes it, before Open
InitBase(limit, trace, failures, codes) ==
    /\ d = [device |-> "nil", brightness |-> 0, preSleepBrightness |-> 0,
            asleep |-> FALSE, fadeDuration |-> 0, sinceLastAction |-> 0,
            sleepCancel |-> 0]
    /\ sleepMutex = [w |-> NoThread, r |-> {}]
    /\ mutex = NoThread
    /\ cmd = Zeros(ReportSize)
    /\ hid \in [goos : {"linux", "windows"}, failures : {failures}, hw : {0},
                wire : {<<>>}, trace : {trace}, codes : {codes},
                reports : {IF codes = {} THEN 0 ELSE MaxReports}, read : {0}]
    /\ kch = [events |-> <<>>, woke |-> {}, closed |-> 0]
    /\ timers = [i \in TimerIds |-> [started |-> FALSE, done |-> FALSE, left |-> 0]]
    /\ stack = [t \in Threads |-> <<>>]
    /\ ret = [t \in Threads |-> Nil]
    /\ caller = [calls |-> 0, limit |-> limit, record |-> trace, opened |-> FALSE, before |-> NoSnapshot,
                 call |-> [fn |-> "none"], hist |-> <<>>, checks |-> 0]
    /\ probe = [in |-> 0, done |-> FALSE, e2a |-> 0, a2e |-> 0, round |-> 0]

\* the state a successful Open leaves
InitOpened(limit, trace, failures, codes) ==
    /\ d = [device |-> "open", brightness |-> 0, preSleepBrightness |-> 0,
            asleep |-> FALSE, fadeDuration |-> 0, sinceLastAction |-> 0,
            sleepCancel |-> 0]
    /\ sleepMutex = [w |-> NoThread, r |-> {}]
    /\ mutex = NoThread
    /\ cmd = [CopyAt(Zeros(ReportSize), 0, ClearHeader) EXCEPT ![12] = \Hff]
    /\ hid \in [goos : {"linux", "windows"}, failures : {failures}, hw : {100},
                wire : {<<>>}, trace : {trace}, codes : {codes},
                reports : {IF codes = {} THEN 0 ELSE MaxReports}, read : {0}]
    /\ kch = [events |-> <<>>, woke |-> {}, closed |-> 0]
    /\ timers = [i \in TimerIds |-> [started |-> FALSE, done |-> FALSE, left |-> 0]]
    /\ stack = [t \in Threads |-> <<>>]
    /\ ret = [t \in Threads |-> Nil]
    /\ caller = [calls |-> 0, limit |-> limit, record |-> trace, opened |-> TRUE, before |-> NoSnapshot,
                 call |-> [fn |-> "none"], hist |-> <<>>, checks |-> 0]
    /\ probe = [in |-> 0, done |-> FALSE, e2a |-> 0, a2e |-> 0, round |-> 0]

(***************************************************************************)
(* SpecMap: the key index mapper applied to every 8-bit index.             *)
(***************************************************************************)
InitMap ==
    /\ InitOpened(0, FALSE, 0, {})
    /\ hid.goos = "linux"

MapPick ==
    /\ ~probe.done
    /\ \E index \in Byte :
          probe' = [in |-> index, done |-> TRUE,
                    e2a |-> elgato_to_ajazz(index),
                    a2e |-> ajazz_to_elgato(index),
                    round |-> IF elgato_to_ajazz(index) = Panic THEN Panic
                              ELSE ajazz_to_elgato(elgato_to_ajazz(index))]
    /\ UNCHANGED <<d, sleepMutex, mutex, cmd, hid, kch, timers, stack, ret, caller>>

NextMap == MapPick
SpecMap == InitMap /\ [][NextMap]_vars

(***************************************************************************)
(* SpecUpload: one SetImage over a transport that does not fail.           *)
(***************************************************************************)
InitUpload == InitOpened(1, TRUE, 0, {})

UploadCall == CallSetImage(Indices, Payloads, {Pixels})

NextUpload ==
    \/ UploadCall
    \/ SetImage(UserT)
    \/ cmdBatchRetry(UserT)
    \/ cmdBatchRetry_func1(UserT)
    \/ cmdWrite(UserT)

SpecUpload == InitUpload /\ [][NextUpload]_vars


(***************************************************************************)
(* SpecRetry: one upload or one retried command over a transport that may  *)
(* fail MaxFail writes.                                                    *)
(***************************************************************************)
InitRetry ==
    /\ InitOpened(1, TRUE, MaxFail, {})
    /\ hid.goos = "linux"

RetryCall ==
    \/ CallSetImage({0, 17, \Hff}, {Payload_(ReportSize + 1, "ramp")}, {Pixels, Pixels + 1})
    \/ CallLogoRetry
    \/ CallLightRetry
    \/ CallStopRetry
    \/ CallClearRetry

NextRetry ==
    \/ RetryCall
    \/ SetImage(UserT)
    \/ cmdBatchRetry(UserT)
    \/ cmdBatchRetry_func1(UserT)
    \/ cmdLogoRetry(UserT)
    \/ cmdLogo(UserT)
    \/ cmdLightRetry(UserT)
    \/ cmdStopRetry(UserT)
    \/ cmdClearRetry(UserT)
    \/ cmdLight(UserT)
    \/ cmdStop(UserT)
    \/ cmdClear(UserT)
    \/ WriteRetry(UserT)
    \/ cmdWrite(UserT)

SpecRetry == InitRetry /\ [][NextRetry]_vars

(***************************************************************************)
(* SpecSleep: one caller opens the device and then makes MaxCalls calls of *)
(* the brightness and sleep API, one after the other.                      *)
(***************************************************************************)
InitSleep ==
    /\ InitBase(MaxCalls + 1, TRUE, 0, {})
    /\ hid.goos = "linux"

SleepCall ==
    \/ CallOpen
    \/ CallSetBrightness
    \/ CallSetSleepFadeDuration
    \/ CallSleep
    \/ CallWake
    \/ CallReset

NextSleep ==
    \/ SleepCall
    \/ Open(UserT)
    \/ Reset(UserT)
    \/ FirmwareVersion(UserT)
    \/ SetBrightness(UserT)
    \/ SetSleepFadeDuration(UserT)
    \/ Sleep(UserT)
    \/ Wake(UserT)
    \/ Fade(UserT)
    \/ cmdLightRetry(UserT)
    \/ cmdStopRetry(UserT)
    \/ cmdClearRetry(UserT)
    \/ cmdLight(UserT)
    \/ cmdStop(UserT)
    \/ cmdClear(UserT)
    \/ WriteRetry(UserT)
    \/ cmdWrite(UserT)

SpecSleep == InitSleep /\ [][NextSleep]_vars

(***************************************************************************)
(* Spec: the caller, the key reader and the idle timer run concurrently on *)
(* an open device while time passes.                                       *)
(***************************************************************************)
\* how many API calls the caller makes while the other goroutines run
MaxConcurrentCalls == 2

Init == 
    /\ InitOpened(MaxConcurrentCalls, FALSE, 0, {13})
    /\ hid.goos = "linux"

UserCall ==
    \/ CallReadKeys
    \/ CallSetSleepTimeout
    \/ CallSleep
    \/ CallWake
    \/ \E p \in {50} :
          ApiCall([fn |-> "SetBrightness", pc |-> "store", args |-> [percent |-> p]])
    \/ CallSetImage({0}, {Payload_(1, "ramp")}, {Pixels})
    \/ CallReset
    \/ ApiCall([fn |-> "FirmwareVersion", pc |-> "lock"])
    \/ ApiCall([fn |-> "cmdExit", pc |-> "lock"])

Step(t) ==
    \/ SetBrightness(t)
    \/ Sleep(t)
    \/ Wake(t)
    \/ Fade(t)
    \/ cmdLightRetry(t)
    \/ cmdLight(t)
    \/ WriteRetry(t)
    \/ cmdWrite(t)

UserStep ==
    \/ Step(UserT)
    \/ ReadKeys(UserT)
    \/ SetSleepTimeout(UserT)
    \/ SetImage(UserT)
    \/ cmdBatchRetry(UserT)
    \/ cmdBatchRetry_func1(UserT)
    \/ Reset(UserT)
    \/ FirmwareVersion(UserT)
    \/ cmdStopRetry(UserT)
    \/ cmdClearRetry(UserT)
    \/ cmdStop(UserT)
    \/ cmdClear(UserT)
    \/ cmdExit(UserT)

ReaderStep == ReadKeys_func1(ReaderT) \/ Step(ReaderT)
TimerStep(i) == SetSleepTimeout_func1(TimerT(i)) \/ Step(TimerT(i))

Next ==
    \/ UserCall
    \/ UserStep
    \/ ReaderStep
    \/ \E i \in TimerIds : TimerStep(i)
    \/ Tick

Spec == Init /\ [][Next]_vars

(***************************************************************************)
(* SpecIdle: the caller arms the idle timer and starts the key reader; the *)
(* goroutines are scheduled fairly and time goes on.  The panel may send   *)
(* a report or not, and the caller may call or not.                        *)
(***************************************************************************)
InitIdle ==
    /\ InitOpened(MaxConcurrentCalls, FALSE, 0, {13})
    /\ hid.goos = "linux"

IdleCall ==
    \/ CallReadKeys
    \/ CallSetSleepTimeout

IdleUserStep ==
    \/ ReadKeys(UserT)
    \/ SetSleepTimeout(UserT)

\* the reader goes on with a report it has read
ReaderRun == Top(ReaderT).pc # "read" /\ ReaderStep

NextIdle ==
    \/ IdleCall
    \/ IdleUserStep
    \/ ReaderStep
    \/ \E i \in TimerIds : TimerStep(i)
    \/ Tick

SpecIdle ==
    /\ InitIdle /\ [][NextIdle]_vars
    /\ WF_vars(IdleUserStep)
    /\ WF_vars(stack[ReaderT] # <<>> /\ ReaderRun)
    /\ \A i \in TimerIds : WF_vars(TimerStep(i))
    /\ WF_vars(Tick)

(***************************************************************************)
(* The claims.                                                             *)
(***************************************************************************)
\* the last API call that has returned, and whether there is one of fn
Last == caller.hist[Len(caller.hist)]
Returned(fn) == caller.hist # <<>> /\ Last.op = fn
Ceil(n, m) == (n + m - 1) \div m

\* C8: for every index in 1..18 ajazz_to_elgato(elgato_to_ajazz(index)) is index;
\* elgato_to_ajazz is the identity above 18 and ajazz_to_elgato above 17; and
\* neither function indexes its table out of range, for any 8-bit index.
C8_RoundTrip ==
    probe.done =>
        /\ probe.e2a # Panic
        /\ probe.a2e # Panic
        /\ probe.in \in 1..18 => probe.round = probe.in
        /\ probe.in > 18 => probe.e2a = probe.in
        /\ probe.in > 17 => probe.a2e = probe.in

\* the writes of the last upload: the batch header and the payload's chunks
UploadDone == Returned("SetImage") /\ Last.err = Nil
UploadData == Last.call.args.img.bytes
ChunkWrite(j) == hid.wire[j + 1].ptr
ChunkCount == Len(hid.wire) - 1
\* the bytes of the payload that chunk j carries
ChunkLen(j) == Min(ReportSize, Len(UploadData) - (j - 1) * ReportSize)
ChunkLead(j) == UploadData[(j - 1) * ReportSize + 1]

\* what holds of the chunks whichever their length is: ceil(N/512) writes, the
\* data portions concatenated are the payload, zeros follow the data
ChunksCarry ==
    /\ ChunkCount = Ceil(Len(UploadData), ReportSize)
    /\ \A j \in 1..ChunkCount : Len(Payload(ChunkWrite(j))) = ReportSize
    /\ \A k \in 1..Len(UploadData) :
          Payload(ChunkWrite(((k - 1) \div ReportSize) + 1))[((k - 1) % ReportSize) + 1]
             = UploadData[k]
    /\ \A j \in 1..ChunkCount : \A k \in (ChunkLen(j) + 1)..ReportSize :
          Payload(ChunkWrite(j))[k] = 0

\* C7 as stated: a payload of N >= 1 bytes goes out in exactly ceil(N/512) writes,
\* each of 512 bytes on a platform without report IDs and of 513 bytes with a
\* leading 0x00 on a platform with them, whatever the first data byte of the chunk
\* is; the data portions concatenated are the payload; zeros follow the data.
C7_AsStated ==
    UploadDone =>
        /\ ChunksCarry
        /\ \A j \in 1..ChunkCount :
              IF hid.goos = "windows"
              THEN Len(ChunkWrite(j)) = ReportSize
              ELSE Len(ChunkWrite(j)) = ReportSizeID /\ ChunkWrite(j)[1] = 0

\* C7: a payload of N >= 1 bytes goes out in exactly ceil(N/512) writes; a write is
\* 513 bytes with a leading 0x00 exactly when the platform is not Windows and the
\* first data byte of its chunk is 0x00, and 512 bytes otherwise; the data portions
\* concatenated are the payload; zeros follow the data in the last chunk.
C7_Chunks ==
    UploadDone =>
        /\ ChunksCarry
        /\ \A j \in 1..ChunkCount :
              IF hid.goos # "windows" /\ ChunkLead(j) = 0
              THEN Len(ChunkWrite(j)) = ReportSizeID /\ ChunkWrite(j)[1] = 0
              ELSE Len(ChunkWrite(j)) = ReportSize

\* an upload of several chunks, on a platform with report IDs, of which one chunk
\* went out with the report ID and one without, the last one partly filled
C7_Witness ==
    /\ UploadDone
    /\ hid.goos = "linux"
    /\ ChunkCount = MaxChunks
    /\ Len(UploadData) % ReportSize # 0
    /\ \E i, j \in 1..ChunkCount :
          Len(ChunkWrite(i)) = ReportSizeID /\ Len(ChunkWrite(j)) = ReportSize

\* the header of the last upload
UploadHeader == Payload(hid.wire[1].ptr)
HeaderFrames == {i \in 1..Len(hid.wire) : IsCommand(hid.wire[i].ptr, BatchHeader)}
UploadFraming ==
    /\ HeaderFrames = {1}
    /\ \A i \in 1..Len(hid.wire) : hid.wire[i].ok
    /\ ChunkCount = Ceil(Len(UploadData), ReportSize)
    /\ Uint32At(UploadHeader, 8) = Len(UploadData)

\* C9 as stated: a successful SetImage(index, img) over a transport that does not
\* fail issues one batch header and then ceil(len/512) chunks; the header carries
\* len as a big-endian uint32 at offset 8 and elgato_to_ajazz(index + 1) at offset 12.
C9_AsStated ==
    UploadDone =>
        /\ UploadFraming
        /\ UploadHeader[13] = elgato_to_ajazz((Last.call.args.index + 1) % 256)

\* C9: a successful SetImage(index, img) over a transport that does not fail issues
\* one batch header and then ceil(len/512) chunks; the header carries len as a
\* big-endian uint32 at offset 8 and elgato_to_ajazz(index) at offset 12, so that
\* SetImage(0, ...) goes to slot 13, the top-left key.
C9_Header ==
    UploadDone =>
        /\ UploadFraming
        /\ UploadHeader[13] = elgato_to_ajazz(Last.call.args.index)

\* SetImage(0, ...) of more than one chunk has gone out
C9_Witness ==
    /\ UploadDone
    /\ Last.call.args.index = 0
    /\ UploadHeader[13] = 13
    /\ ChunkCount = MaxChunks


\* the frames of the wire that are clear-slot commands
IsClear(i) == IsCommand(hid.wire[i].ptr, ClearHeader)
InUpload == caller.call.fn = "SetImage"

\* C4: in SetImage -> cmdBatchRetry with the attempt bound 3, every attempt after
\* the first comes after the previous attempt has failed and a clear-slot command
\* has then been issued, before the new attempt's batch header is written; the slot
\* in the clear frame (byte 11) is the slot in the batch header (byte 12).
C4_ClearBeforeRetry ==
    InUpload =>
        /\ Cardinality(HeaderFrames) <= Attempts
        /\ \A h \in HeaderFrames : h > 1 =>
              \E g \in HeaderFrames, c \in 1..(h - 2) :
                 /\ g <= c
                 /\ \A k \in g..c : ~IsClear(k) /\ (k > g => ~IsCommand(hid.wire[k].ptr, BatchHeader))
                 /\ ~hid.wire[c].ok
                 /\ \A k \in (c + 1)..(h - 1) :
                       /\ IsClear(k)
                       /\ Payload(hid.wire[k].ptr)[12] = Payload(hid.wire[h].ptr)[13]

\* SetImage(0, ...) has succeeded at its third attempt: two attempts failed, one at
\* its header and one at a chunk, and the slot was cleared after each
C4_Witness ==
    /\ UploadDone
    /\ Last.call.args.index = 0
    /\ Cardinality(HeaderFrames) = Attempts
    /\ \E h \in HeaderFrames : ~hid.wire[h].ok
    /\ \E h \in HeaderFrames : hid.wire[h].ok /\ ~hid.wire[h + 1].ok
    /\ \E k \in 1..Len(hid.wire) : IsClear(k) /\ hid.wire[k].ok

Retried == {"cmdLightRetry", "cmdStopRetry", "cmdClearRetry"}

\* C5: Stop, SetLight and ClearSlot through the retry wrapper with the bound 3: when
\* every write fails the operation returns the last transport error and has handed
\* its frame to the HID write at most 3 times; when k < 3 writes fail and the next
\* succeeds it returns success.
C5_AsStated ==
    caller.call.fn \in Retried =>
        /\ Len(hid.wire) <= Attempts
        /\ (caller.hist # <<>> /\ Last.op \in Retried) =>
              IF \A i \in 1..Len(hid.wire) : ~hid.wire[i].ok
              THEN Last.err # Nil /\ LastError(Last.err) = LastError(ErrIO)
              ELSE Last.err = Nil

\* C6: a validation error is not retried and does not reach the transport: SetImage
\* with an image of a wrong size and the logo upload through its retry wrapper with a
\* payload of a wrong length evaluate the validation once, return the validation
\* error and write nothing.
C6_AsStated ==
    /\ caller.call.fn = "cmdLogoRetry" =>
          /\ caller.checks <= 1
          /\ hid.wire = <<>>
          /\ Returned("cmdLogoRetry") => Last.err = ErrLength
    /\ (InUpload /\ (caller.call.args.img.dx # Pixels \/ caller.call.args.img.dy # Pixels)) =>
          /\ caller.checks <= 1
          /\ hid.wire = <<>>
          /\ Returned("SetImage") => Last.err = ErrDimensions


\* the API call that returned before the last one
Prev == caller.hist[Len(caller.hist) - 1]
SleptAndWoke ==
    /\ Len(caller.hist) >= 2
    /\ Prev.op = "Sleep" /\ Prev.err = Nil /\ ~Prev.before.asleep
    /\ Last.op = "Wake" /\ Last.err = Nil

\* C1: whatever brightness the device holds while awake, set by SetBrightness or by
\* the SetLight(100) of Open and Reset, and whatever the fade duration is, Sleep()
\* and then Wake(), both succeeding, leave the stored brightness and the level last
\* sent to the hardware as they were just before Sleep() was called.
C1_AsStated ==
    SleptAndWoke =>
        /\ Last.after.brightness = Prev.before.brightness
        /\ Last.after.hw = Prev.before.hw



\* C2: a key report read while the device is asleep triggers one Wake() and emits no
\* key event; no press or release is put on the event channel while the device is
\* asleep, under any interleaving with the idle timer and the callers of Sleep and
\* Wake.
C2_AsStated ==
    [][kch'.events # kch.events => ~d.asleep /\ hid.read \notin kch.woke]_vars

\* a command execution: the frame of one of the functions that lock d.mutex, from
\* the lock it was granted to its unlock
Commands == {"cmdLight", "cmdStop", "cmdClear", "cmdExit", "cmdLogo",
             "cmdBatchRetry_func1", "FirmwareVersion"}
InFlight(t) ==
    \E k \in 1..Len(stack[t]) : stack[t][k].fn \in Commands /\ stack[t][k].pc # "lock"
Transfers(t) ==
    \/ Running(t, "cmdWrite")
    \/ Running(t, "FirmwareVersion") /\ Top(t).pc = "get"

\* C3: the transfers of one command execution, its header and all its chunks, are
\* contiguous in the transfer stream and the transmit buffer is not written by one
\* command while another is between building its frame and finishing its
\* transmission: a goroutine transfers only within a command execution, no two
\* goroutines are within one at the same time, and d.cmd changes only by a step of
\* the goroutine that is within one.
C3_Serialized ==
    /\ [](\A t \in Threads :
            /\ Transfers(t) => InFlight(t)
            /\ InFlight(t) => \A u \in Threads \ {t} : ~InFlight(u))
    /\ [][cmd' # cmd => \E t \in Threads : stack'[t] # stack[t] /\ InFlight(t)]_vars

\* an upload has written its header and not yet its chunk while the idle timer or the
\* key reader waits for d.mutex to set the brightness
C3_Witness ==
    /\ Running(UserT, "cmdBatchRetry_func1") /\ Top(UserT).pc = "loop"
    /\ \E t \in Threads \ {UserT} : Running(t, "cmdLight") /\ Top(t).pc = "lock"


\* the idle timer i is armed: its goroutine runs and its context is not cancelled
Armed(i) ==
    /\ timers[i].started /\ ~timers[i].done
    /\ stack[TimerT(i)] # <<>> /\ stack[TimerT(i)][1].fn = "SetSleepTimeout_func1"
TimerFrame(i) == stack[TimerT(i)][1]
\* the device is awake and no Sleep, Wake or key report is being handled
Awake == ~d.asleep /\ sleepMutex.w = NoThread
\* the timer goroutine waits for its timer or handles its firing, outside Sleep()
Watching(i) == Armed(i) /\ Len(stack[TimerT(i)]) = 1
\* when the timer fires next, no more than the timeout and one timer period will have
\* passed since the last recorded activity
InTime(i) == d.sinceLastAction + timers[i].left <= TimerFrame(i).t + TickInterval
\* the timer goroutine is about to call Sleep()
CallsSleep(i) ==
    /\ Watching(i) /\ TimerFrame(i).pc = "test"
    /\ SleepDue(d.asleep, TimerFrame(i).since, TimerFrame(i).t)
EverAsleep == \A i \in TimerIds : (Armed(i) /\ ~d.asleep) ~> (d.asleep \/ ~Armed(i))

\* C10 as stated: after SetSleepTimeout(d), d > 0, on an awake device whose
\* brightness writes succeed, when no key report is read for d or longer the idle
\* timer calls Sleep() and the device becomes asleep, and Sleep() is called no later
\* than one timer period after d has elapsed since the last recorded activity.
C10_AsStated ==
    /\ [](\A i \in TimerIds : (Watching(i) /\ Awake) => InTime(i))
    /\ EverAsleep

\* C10: after SetSleepTimeout(d), d > 0, on an awake device whose brightness writes
\* succeed, when no key report is read for d or longer the idle timer calls Sleep()
\* and the device becomes asleep; Sleep() is called no later than one timer period
\* after d has elapsed since the last recorded activity or, when d had elapsed
\* before, at the first firing of the timer after the call of SetSleepTimeout.
C10_IdleSleep ==
    /\ [](\A i \in TimerIds :
            (Watching(i) /\ Awake /\ ~TimerFrame(i).first) => InTime(i))
    /\ EverAsleep

\* the idle timer, not at its first firing, finds the device idle for the timeout
\* and is about to call Sleep()
C10_Witness ==
    \E i \in TimerIds :
        /\ Armed(i) /\ CallsSleep(i) /\ ~TimerFrame(i).first
        /\ TimerFrame(i).t > 1
        /\ hid.read > 0

\* the caller is inside SetSleepTimeout
Configuring == \E k \in 1..Len(stack[UserT]) : stack[UserT][k].fn = "SetSleepTimeout"
\* a timeout was configured once and the last SetSleepTimeout has cancelled it and
\* returned without starting another: d.sleepCancel is nil
TimerDisabled ==
    /\ d.sleepCancel = 0 /\ ~Configuring
    /\ \E i \in TimerIds : timers[i].started
\* the idle-timer goroutines that still run
LiveTimers == {i \in TimerIds : stack[TimerT(i)] # <<>>}
\* the step by which the idle timer i calls Sleep()
TimerCallsSleep(i) ==
    /\ Len(stack[TimerT(i)]) = 1
    /\ Len(stack'[TimerT(i)]) = 2 /\ stack'[TimerT(i)][2].fn = "Sleep"

\* C11: once SetSleepTimeout(0) has returned, also when it replaces a timeout d > 0
\* and under every interleaving with the old idle timer, no idle timer calls
\* Sleep(); and when SetSleepTimeout has returned at most one idle-timer goroutine
\* is left that can call Sleep().
C11_AsStated ==
    /\ [](~Configuring => Cardinality(LiveTimers) <= 1)
    /\ [][TimerDisabled => \A i \in TimerIds : ~TimerCallsSleep(i)]_vars

\* the clamped percent of the SetBrightness call that returned last
LastPercent == Clamp(Last.call.args.percent)
\* the SetBrightness call that returned before the last call was deferred
DeferredThenWoke ==
    /\ Len(caller.hist) >= 2
    /\ Prev.op = "SetBrightness" /\ Prev.before.asleep
    /\ Clamp(Prev.call.args.percent) > 0
    /\ Last.op = "Wake" /\ Last.err = Nil

\* C12: SetBrightness(percent) with percent > 0 on a device that is asleep returns
\* success, writes nothing to the panel, sets the remembered pre-sleep brightness to
\* the clamped percent and leaves the current brightness and the asleep flag as they
\* were; a successful Wake() after it brings the hardware to that percent.  In every
\* other case SetBrightness sends SetLight with the clamped value.
C12_AsStated ==
    /\ Returned("SetBrightness") =>
          IF Last.before.asleep /\ LastPercent > 0
          THEN /\ Last.err = Nil
               /\ Last.after.writes = Last.before.writes
               /\ Last.after.hw = Last.before.hw
               /\ Last.after.pre = LastPercent
               /\ Last.after.brightness = Last.before.brightness
               /\ Last.after.asleep = Last.before.asleep
          ELSE /\ Last.after.writes > Last.before.writes
               /\ Last.err = Nil => Last.after.hw = LastPercent
    /\ DeferredThenWoke => Last.after.hw = Clamp(Prev.call.args.percent)

\* a goroutine is inside Sleep() or Wake()
SleepOrWakeRuns ==
    \E t \in Threads : \E k \in 1..Len(stack[t]) : stack[t][k].fn \in {"Sleep", "Wake"}

\* C13: under every sequence and interleaving of the API operations, whenever the
\* device is asleep and no Sleep() or Wake() is in progress the level last sent to
\* the hardware is 0; and no operation sends a level other than 0 to the hardware
\* while the device is asleep.
C13_AsStated ==
    /\ []((d.asleep /\ ~SleepOrWakeRuns) => hid.hw = 0)
    /\ [][(d.asleep /\ hid.hw' # hid.hw) => hid.hw' = 0]_vars


(***************************************************************************)
(* SpecOpen: one Open over a transport that may fail MaxFail transfers.    *)
(***************************************************************************)
InitOpen ==
    /\ InitBase(1, TRUE, MaxFail, {})
    /\ hid.goos = "linux"

NextOpen ==
    \/ CallOpen
    \/ Open(UserT)
    \/ FirmwareVersion(UserT)
    \/ cmdStopRetry(UserT)
    \/ cmdLightRetry(UserT)
    \/ cmdClearRetry(UserT)
    \/ cmdStop(UserT)
    \/ cmdLight(UserT)
    \/ cmdClear(UserT)
    \/ WriteRetry(UserT)
    \/ cmdWrite(UserT)

SpecOpen == InitOpen /\ [][NextOpen]_vars

\* the step of Open a transfer on the wire belongs to: 1 the feature-report read,
\* 2 Stop, 3 SetLight(100), 4 ClearSlot(0xff), 0 anything else
OpenStep(w) ==
    IF Payload(w.ptr)[1] = 1 THEN 1
    ELSE IF IsCommand(w.ptr, StopHeader) THEN 2
    ELSE IF IsCommand(w.ptr, LightHeader) /\ Payload(w.ptr)[11] = 100 THEN 3
    ELSE IF IsCommand(w.ptr, ClearHeader) /\ SubSeq(Payload(w.ptr), 9, 16) = SubSeq(ClearHeader, 9, 16) THEN 4
    ELSE 0

OpenWireInOrder ==
    /\ \A i \in 1..Len(hid.wire) : OpenStep(hid.wire[i]) # 0
    /\ hid.wire # <<>> => OpenStep(hid.wire[1]) = 1
    /\ \A i \in 1..(Len(hid.wire) - 1) :
          IF hid.wire[i].ok
          THEN OpenStep(hid.wire[i + 1]) = OpenStep(hid.wire[i]) + 1
          ELSE /\ OpenStep(hid.wire[i]) # 1
               /\ OpenStep(hid.wire[i + 1]) = OpenStep(hid.wire[i])

MaxExitFail == 3

InitClose ==
    /\ InitOpened(2, TRUE, MaxExitFail, {})
    /\ hid.goos = "linux"

CallClose == ApiCall([fn |-> "Close", pc |-> "cancel"])

\* SetSleepTimeout(time.Second)
CallArm ==
    /\ FreeTimers # {}
    /\ ApiCall([fn |-> "SetSleepTimeout", pc |-> "cancel", args |-> [t |-> TickInterval]])

CloseCall ==
    \/ CallArm
    \/ CallClose

\* the idle-timer goroutine and what it calls: Sleep, never Wake
TimerSleeps(t) ==
    \/ SetSleepTimeout_func1(t)
    \/ Sleep(t)
    \/ Fade(t)
    \/ SetBrightness(t)
    \/ cmdLightRetry(t)
    \/ cmdLight(t)
    \/ WriteRetry(t)
    \/ cmdWrite(t)

NextClose ==
    \/ CloseCall
    \/ SetSleepTimeout(UserT)
    \/ Close(UserT)
    \/ cmdExit(UserT)
    \/ WriteRetry(UserT)
    \/ cmdWrite(UserT)
    \/ \E i \in TimerIds : TimerSleeps(TimerT(i))
    \/ Tick

SpecClose == InitClose /\ [][NextClose]_vars

\* an Exit frame of the caller is on the wire
IsExit(w) == w.by = UserT /\ SubSeq(Payload(w.ptr), 1, 16) = ExitHeader
ExitSent == \E i \in 1..Len(hid.wire) : IsExit(hid.wire[i])
TimerCancelled ==
    /\ d.sleepCancel = 0
    /\ \A i \in TimerIds : timers[i].started => timers[i].done

\* the order of Close: Exit is issued with the timer cancelled and the handle open,
\* and the handle is closed after Exit, also when Exit failed
CloseInOrder ==
    /\ ExitSent => TimerCancelled
    /\ d.device = "closed" => ExitSent
    /\ Returned("Close") => d.device = "closed" /\ Last.err = Nil

\* C15: Close cancels the idle timer, then issues Exit, then closes the handle, also
\* when Exit fails, and under every interleaving with the idle-timer goroutine no
\* transfer is issued once the handle is closed.
C15_AsStated ==
    /\ []CloseInOrder
    /\ [][d.device = "closed" => hid.wire' = hid.wire]_vars

\* the SetLight frames on the wire
IsLight(w) == IsCommand(w.ptr, LightHeader)
LightLevels == {Payload(hid.wire[i].ptr)[11] : i \in {j \in 1..Len(hid.wire) : IsLight(hid.wire[j])}}

\* C16: after SetBrightness(percent) the stored brightness is min(percent, 100), and
\* every level at header offset 10 of a SetLight frame lies in 0..100.
C16_Clamped ==
    /\ Returned("SetBrightness") =>
          Last.after.brightness = Min(Last.call.args.percent, 100)
    /\ LightLevels \subseteq 0..100

\* SetBrightness of more than 100 percent has sent a SetLight frame
C16_Witness ==
    /\ Returned("SetBrightness") /\ Last.call.args.percent > 100
    /\ Last.after.writes > Last.before.writes
    /\ IsLight(hid.wire[Len(hid.wire)])

(***************************************************************************)
(* SpecKeys: the key reader runs on reports and empty reads of the panel   *)
(* while the caller may put the device asleep.                             *)
(***************************************************************************)
InitKeys ==
    /\ InitOpened(MaxConcurrentCalls, TRUE, 0, {3, 13, NoBytes})
    /\ hid.goos = "linux"

KeysCall ==
    \/ CallReadKeys
    \/ CallSleep

NextKeys ==
    \/ KeysCall
    \/ ReadKeys(UserT)
    \/ Step(UserT)
    \/ ReaderStep

SpecKeys == InitKeys /\ [][NextKeys]_vars

\* the reads of the panel that returned without error, in order, and the n-th of them
Reads == SelectSeq(hid.wire, LAMBDA w : w.by = PanelT)
\* the reader is done with the n-th read: it is back at the read, or gone
Handled(n) ==
    \/ n < hid.read
    \/ stack[ReaderT] = <<>>
    \/ stack[ReaderT][1].pc = "read" /\ Len(stack[ReaderT]) = 1
\* the events of the n-th read: a press and a release of the mapped scan code, or
\* none for an empty read and for a report that woke the device
EventsOf(n) ==
    IF Reads[n].ptr = <<>> \/ n \in kch.woke THEN <<>>
    ELSE <<[index |-> translateKeyIndex(Reads[n].ptr[10]), pressed |-> TRUE, report |-> n],
           [index |-> translateKeyIndex(Reads[n].ptr[10]), pressed |-> FALSE, report |-> n]>>
RECURSIVE EventsUpTo(_)
EventsUpTo(n) == IF n = 0 THEN <<>> ELSE EventsUpTo(n - 1) \o EventsOf(n)
IsPrefix(s, r) == Len(s) <= Len(r) /\ s = SubSeq(r, 1, Len(s))
EmptyRead ==
    /\ Len(hid.wire') = Len(hid.wire) + 1
    /\ hid.wire'[Len(hid.wire')].by = PanelT
    /\ hid.wire'[Len(hid.wire')].ptr = <<>>

KeyPairs ==
    /\ Len(Reads) = hid.read
    /\ IsPrefix(kch.events, EventsUpTo(hid.read))
    /\ (hid.read > 0 /\ Handled(hid.read)) => kch.events = EventsUpTo(hid.read)
    /\ hid.read > 0 => IsPrefix(EventsUpTo(hid.read - 1), kch.events)
    /\ kch.closed <= 1
    /\ kch.closed = 1 => stack[ReaderT] = <<>>

\* C17: the channel carries, for every key report read and found awake, a press and
\* then a release of the mapped scan code at offset 9, in report order and nothing
\* else; an error of the read closes the channel once and ends the loop, and nothing
\* is sent after that; a read of no bytes sends nothing and changes no state.
C17_KeyPairs ==
    /\ []KeyPairs
    /\ [][kch.closed = 1 => kch' = kch]_vars
    /\ [][EmptyRead => UNCHANGED <<d, sleepMutex, mutex, cmd, kch, timers, stack>>]_vars

\* after an empty read a report was sent as a press and a release, and then the read
\* failed
C17_Witness ==
    /\ hid.read = 2 /\ Reads[1].ptr = <<>> /\ Reads[2].ptr # <<>>
    /\ Len(kch.events) = 2
    /\ kch.closed = 1

(***************************************************************************)
(* SpecFade: one Fade on an open, awake device; MaxFail transfers may      *)
(* fail.                                                                   *)
(***************************************************************************)
\* Fade(start, end, duration) with the duration in fade delays, of either sign
CallFade ==
    \E start \in {0, 50, 100}, end \in {0, 50, 100}, ticks \in (-1)..MaxFadeTicks :
        ApiCall(FadeFrame(start, end, ticks))

InitFade ==
    /\ InitOpened(1, TRUE, MaxFail, {})
    /\ hid.goos = "linux"

NextFade ==
    \/ CallFade
    \/ Fade(UserT)
    \/ SetBrightness(UserT)
    \/ cmdLightRetry(UserT)
    \/ cmdLight(UserT)
    \/ WriteRetry(UserT)
    \/ cmdWrite(UserT)

SpecFade == InitFade /\ [][NextFade]_vars

\* the levels of the SetLight frames that went through, in order
Delivered == SelectSeq(hid.wire, LAMBDA w : w.ok)
FadeLevel(n) == Payload(Delivered[n].ptr)[11]
FadeArgs == Last.call.args
Toward(start, end, a, b) == IF start < end THEN a <= b /\ b < end ELSE a >= b /\ b > end

\* C18: Fade(start, end, duration) with a duration under one tick or start = end
\* issues no SetBrightness; otherwise its levels begin at start, are monotone
\* toward end and stay short of it; a failing SetBrightness ends the fade with its
\* error; and a fade issues at most one level per tick of its duration.
C18_AsStated ==
    /\ Returned("Fade") =>
          IF FadeArgs.duration < 1 \/ FadeArgs.start = FadeArgs.end
          THEN hid.wire = <<>> /\ Last.err = Nil
          ELSE /\ Len(Delivered) <= FadeArgs.duration
               /\ Last.err = Nil => Delivered # <<>>
               /\ Delivered # <<>> => FadeLevel(1) = FadeArgs.start
               /\ \A n \in 1..Len(Delivered) :
                     Toward(FadeArgs.start, FadeArgs.end, FadeArgs.start, FadeLevel(n))
               /\ \A n \in 1..(Len(Delivered) - 1) :
                     Toward(FadeArgs.start, FadeArgs.end, FadeLevel(n), FadeLevel(n + 1))
               /\ Last.err # Nil <=> (hid.wire # <<>> /\ ~hid.wire[Len(hid.wire)].ok)
    /\ (Running(UserT, "Fade") /\ Top(UserT).args.duration >= 1) =>
          Top(UserT).k <= Top(UserT).args.duration

(***************************************************************************)
(* SpecClear: one Clear on a panel of up to MaxColumns x MaxRows keys;     *)
(* as many transfers may fail as it takes to make one upload fail.         *)
(***************************************************************************)
\* the largest panel
MaxColumns == 2
MaxRows == 2

CallClear ==
    \E c \in 1..MaxColumns, r \in 1..MaxRows :
        ApiCall([fn |-> "Clear", pc |-> "loop", i |-> 0, args |-> [Columns |-> c, Rows |-> r]])

InitClear ==
    /\ InitOpened(1, TRUE, Attempts, {})
    /\ hid.goos = "linux"

NextClear ==
    \/ CallClear
    \/ Clear(UserT)
    \/ SetImage(UserT)
    \/ cmdBatchRetry(UserT)
    \/ cmdBatchRetry_func1(UserT)
    \/ cmdClear(UserT)
    \/ WriteRetry(UserT)
    \/ cmdWrite(UserT)

SpecClear == InitClear /\ [][NextClear]_vars

\* the slots of the batch headers on the wire, in order, and the logical index of a slot
Slots == [n \in 1..Cardinality(HeaderFrames) |->
            Payload(hid.wire[CHOOSE i \in HeaderFrames :
                        Cardinality({j \in HeaderFrames : j <= i}) = n].ptr)[13]]
LogicalIndex(slot) == CHOOSE i \in Byte : BatchTarget(i) = slot
KeySlots == Last.call.args.Columns * Last.call.args.Rows

\* C19: Clear() uploads the black image to the logical indices 0 .. Columns*Rows-1,
\* each by one SetImage, in increasing order, and to no other index; it stops at the
\* first upload that fails and returns its error.
C19_AsStated ==
    Returned("Clear") =>
        /\ \A n \in 1..Len(Slots) : LogicalIndex(Slots[n]) \in 0..(KeySlots - 1)
        /\ \A n \in 1..(Len(Slots) - 1) : LogicalIndex(Slots[n]) <= LogicalIndex(Slots[n + 1])
        /\ Last.after.checks - Last.before.checks <= KeySlots
        /\ Last.err = Nil =>
              /\ Last.after.checks - Last.before.checks = KeySlots
              /\ {LogicalIndex(Slots[n]) : n \in 1..Len(Slots)} = 0..(KeySlots - 1)
        /\ Last.err # Nil => \E i \in 1..Len(hid.wire) : ~hid.wire[i].ok

(***************************************************************************)
(* SpecLock: one caller makes MaxCalls + 1 calls of Sleep, Wake,           *)
(* SetBrightness and SetSleepFadeDuration on an open device.               *)
(***************************************************************************)
LockCall ==
    \/ CallSleep
    \/ CallWake
    \/ ApiCall([fn |-> "SetBrightness", pc |-> "store", args |-> [percent |-> 50]])
    \/ ApiCall([fn |-> "SetSleepFadeDuration", pc |-> "set", args |-> [t |-> MaxFadeTicks]])

InitLock ==
    /\ InitOpened(MaxCalls + 1, TRUE, 0, {})
    /\ hid.goos = "linux"

NextLock ==
    \/ LockCall
    \/ SetSleepFadeDuration(UserT)
    \/ Step(UserT)

SpecLock == InitLock /\ [][NextLock]_vars

\* a goroutine is at d.sleepMutex.Lock() and holds the write lock itself
LocksAgain(t) ==
    /\ Running(t, "SetBrightness") /\ Top(t).pc = "lock"
    /\ sleepMutex.w = t

\* C20: no goroutine that holds the sleep write lock in Sleep() or Wake() comes to a
\* SetBrightness that takes that lock again, so no call blocks forever on it.
C20_AsStated == \A t \in Threads : ~LocksAgain(t)

====
